---- MODULE Spec2Model ----
(***************************************************************************)
(* Model of models/matching/matchingnet.py: the run_matching orchestrator  *)
(* (set-up, training loop, periodic evaluation, early stopping), main, and *)
(* MatchingNet.loss with its train_step and test_step.                     *)
(*                                                                         *)
(* Floating point means are kept as exact rationals [sum, n]; a mean over  *)
(* an empty list (n = 0) is numpy's nan.                                   *)
(***************************************************************************)
EXTENDS Integers, Sequences, FiniteSets, TLC

(* ---------------------------------------------------------------- bounds *)
MaxIter == 2
MaxEvery == 2
MaxEarlyStop == 1
MaxEpisodes == 1
MaxClasses == 2
MaxShots == 2

(* ------------------------------------------------------- python helpers *)
None == <<>>
Some(n) == <<n>>

\* Python truthiness of an Optional[int].
Truthy(v) == v # None /\ v[1] # 0

\* Python truthiness of a path argument (None is falsy).
PathGiven(p) == p # "none"

RECURSIVE SumSeq(_)
SumSeq(s) == IF s = <<>> THEN 0 ELSE s[1] + SumSeq(Tail(s))

\* np.mean of a list, as an exact rational; n = 0 is nan.
Mean(s) == [sum |-> SumSeq(s), n |-> Len(s)]

\* a > b on two means; any comparison with nan is False.
Gt(a, b) == a.n > 0 /\ b.n > 0 /\ a.sum * b.n > b.sum * a.n

Zero == [sum |-> 0, n |-> 1]

InitialBest_mut == [sum |-> -1, n |-> 1]

\* best_valid_acc = 0.0
InitialBest == Zero
NaN == [sum |-> 0, n |-> 0]

\* What one call of MatchingNet.loss reports (loss_dict): the values depend
\* on the encoder and on the sampled episode, both external. Two samples: every
\* query item classified wrongly, or every one correctly with a lower loss.
Outcomes == {[loss |-> 2, acc |-> 0], [loss |-> 1, acc |-> 1]}

Field(s, f) == [i \in 1..Len(s) |-> s[i][f]]

(* ------------------------------------------------------------ arguments *)
\* metric arguments tried: a valid one and one that is not a metric
MetricNames == {"cosine", "manhattan"}

Args ==
  [ max_iter : 0..MaxIter,
    log_every : 1..MaxEvery,
    evaluate_every : 0..MaxEvery,
    early_stop : {None} \cup {Some(n) : n \in 0..MaxEarlyStop},
    n_test_episodes : 1..MaxEpisodes,
    train_path : {"ok", "missing"},
    valid_path : {"none", "ok", "missing"},
    test_path : {"none", "ok", "missing"},
    output_path : {"absent", "empty", "nonempty"},
    metric : MetricNames ]

VARIABLES
  args,                   \* the arguments of run_matching
  pc,                     \* position in run_matching
  error,                  \* the exception that ended the run, or "none"
  exit,                   \* how the for loop was left
  dirs,                   \* directories created by os.makedirs
  writers,                \* SummaryWriters created
  metrics_json,           \* what was dumped to metrics.json
  log_dict,
  net,                    \* MatchingNet: mode and optimizer updates applied
  step,
  train_accuracies,
  train_losses,
  n_eval_since_last_best,
  best_valid_acc,
  set_results,
  loss_dicts,             \* loss_dict of every train_step so far
  n_episodes_run,         \* episodes evaluated by test_step, per split
  sample,                 \* MatchingNet.loss: the episode
  lpc,                    \* MatchingNet.loss: position
  lerr,                   \* MatchingNet.loss: exception raised
  shape,                  \* MatchingNet.loss: n_class, n_support, n_query
  encoder_input,          \* MatchingNet.loss: what encoder.forward was given
  self,                   \* MatchingNet.loss: the module's encoder and metric
  locals,                 \* MatchingNet.loss: the tensors and the result
  cli,                    \* main: the parsed command line, or NoCli
  config_json             \* main: what was dumped to config.json

loopvars == <<step, train_accuracies, train_losses, n_eval_since_last_best,
              best_valid_acc, set_results, loss_dicts, n_episodes_run, net>>
runvars == <<args, pc, error, exit, dirs, writers, metrics_json, log_dict>>
mainvars == <<cli, config_json>>
lossvars == <<sample, lpc, lerr, shape, encoder_input, self, locals>>
vars == <<runvars, loopvars, lossvars, mainvars>>

NoResults == [loss |-> NaN, acc |-> NaN]
NoLogs == [s \in {} |-> <<>>]
NoShape == [n_class |-> 0, n_support |-> 0, n_query |-> 0]

(* ---------------------------------------------------------- MatchingNet *)
MatchingNet_init(metric) == metric \in {"cosine", "euclidean"}

\* The conditions under which self.loss was last called.
LossCall(by, m) == [by |-> by, training |-> m.training, grads |-> m.grads]

NoLossCall == [by |-> "none", training |-> TRUE, grads |-> "none"]

\* A fresh nn.Module is in training mode; no gradient exists yet.
NewNet == [training |-> TRUE, updates |-> 0, grads |-> "none", last_loss |-> NoLossCall]

train_step_nomode(m) ==
  LET m2 == [m EXCEPT !.grads = "zero"]
      m3 == [m2 EXCEPT !.last_loss = LossCall("train_step", m2)]
      m4 == [m3 EXCEPT !.grads = "computed"]
  IN  [m4 EXCEPT !.updates = @ + 1]

\* train_step: train(), zero_grad(), loss, backward(), optimizer.step().
train_step(m) ==
  LET m1 == [m EXCEPT !.training = TRUE]
      m2 == [m1 EXCEPT !.grads = "zero"]
      m3 == [m2 EXCEPT !.last_loss = LossCall("train_step", m2)]
      m4 == [m3 EXCEPT !.grads = "computed"]
  IN  [m4 EXCEPT !.updates = @ + 1]

test_step_mut(m, eps) ==
  LET m1 == [m EXCEPT !.training = FALSE]
      m2 == IF Len(eps) > 0 THEN [m1 EXCEPT !.last_loss = LossCall("test_step", m1)] ELSE m1
  IN  [ net |-> [m2 EXCEPT !.updates = @ + 1],
        results |-> [loss |-> Mean(Field(eps, "loss")), acc |-> Mean(Field(eps, "acc"))] ]

\* test_step: eval(), then one loss per episode under no_grad; eps are the
\* loss_dicts of the n_episodes episodes.
test_step(m, eps) ==
  LET m1 == [m EXCEPT !.training = FALSE]
      m2 == IF Len(eps) > 0 THEN [m1 EXCEPT !.last_loss = LossCall("test_step", m1)] ELSE m1
  IN  [ net |-> m2,
        results |-> [loss |-> Mean(Field(eps, "loss")), acc |-> Mean(Field(eps, "acc"))] ]

(* --------------------------------------------------- run_matching set-up *)
Fail(e) == /\ pc' = "failed"
           /\ error' = e

CheckOutputPath ==
  /\ pc = "start"
  /\ IF args.output_path = "nonempty"
       THEN Fail("FileExistsError")
       ELSE pc' = "writers" /\ error' = error
  /\ UNCHANGED <<args, exit, dirs, writers, metrics_json, log_dict>>
  /\ UNCHANGED <<loopvars, lossvars, mainvars>>

SplitsOf(a) == {"train"} \cup (IF PathGiven(a.valid_path) THEN {"valid"} ELSE {})
                         \cup (IF PathGiven(a.test_path) THEN {"test"} ELSE {})

LogDir(s) == <<"logs", s>>

CreateLogWriters ==
  /\ pc = "writers"
  /\ IF args.output_path = "empty"
       THEN \* os.makedirs on an existing directory
            /\ Fail("FileExistsError")
            /\ UNCHANGED <<dirs, writers, log_dict>>
       ELSE /\ dirs' = {<<"output">>} \cup {LogDir(s) : s \in SplitsOf(args)}
            /\ writers' = SplitsOf(args)
            /\ log_dict' = [s \in SplitsOf(args) |-> <<>>]
            /\ pc' = "model"
            /\ error' = error
  /\ UNCHANGED <<args, exit, metrics_json>>
  /\ UNCHANGED <<loopvars, lossvars, mainvars>>

LoadModel ==
  /\ pc = "model"
  /\ IF MatchingNet_init(args.metric)
       THEN pc' = "data" /\ error' = error
       ELSE Fail("AssertionError")
  /\ UNCHANGED <<args, exit, dirs, writers, metrics_json, log_dict>>
  /\ UNCHANGED <<loopvars, lossvars, mainvars>>

LoadData ==
  /\ pc = "data"
  /\ IF \/ args.train_path = "missing"
        \/ args.valid_path = "missing"
        \/ args.test_path = "missing"
       THEN /\ Fail("FileNotFoundError")
            /\ UNCHANGED loopvars
       ELSE /\ pc' = "loop"
            /\ error' = error
            /\ train_accuracies' = <<>>
            /\ train_losses' = <<>>
            /\ n_eval_since_last_best' = 0
            /\ best_valid_acc' = InitialBest
            /\ step' = 0
            /\ UNCHANGED <<set_results, loss_dicts, n_episodes_run, net>>
  /\ UNCHANGED <<args, exit, dirs, writers, metrics_json, log_dict>>
  /\ UNCHANGED <<lossvars, mainvars>>

(* ------------------------------------------------------------- the loop *)
LogDue_mut(s, every) == s % every = 0

LogDue(s, every) == (s + 1) % every = 0

EvalDue_mut(s, every) == s % every = 0

EvalDue(s, every) == (s + 1) % every = 0

Record_mut(acc, loss, s) ==
  [ metrics |-> << [tag |-> "accuracy", value |-> acc],
                   [tag |-> "loss", value |-> loss] >>,
    global_step |-> s + 1 ]

Record(acc, loss, s) ==
  [ metrics |-> << [tag |-> "accuracy", value |-> acc],
                   [tag |-> "loss", value |-> loss] >>,
    global_step |-> s ]

WindowAfterLog_mut(w) == w

\* train_accuracies = list(); train_losses = list()
WindowAfterLog(w) == <<>>

Improved_mut(acc, best) == acc.n > 0 /\ best.n > 0 /\ acc.sum * best.n >= best.sum * acc.n

\* if set_results["acc"] > best_valid_acc
Improved(acc, best) == Gt(acc, best)

EarlyStopHit_gt(es, n) == Truthy(es) /\ n > es[1]

EarlyStopHit_always(es, n) == es # None /\ n >= es[1]

\* if early_stop and n_eval_since_last_best >= early_stop
EarlyStopHit(es, n) == Truthy(es) /\ n >= es[1]

NextIteration == /\ step' = step + 1
                 /\ pc' = "loop"

TrainStep ==
  /\ pc = "loop"
  /\ step < args.max_iter
  /\ \E d \in Outcomes :
       /\ net' = train_step(net)
       /\ train_accuracies' = Append(train_accuracies, d.acc)
       /\ train_losses' = Append(train_losses, d.loss)
       /\ loss_dicts' = Append(loss_dicts, d)
  /\ pc' = "logging"
  /\ UNCHANGED <<args, error, exit, dirs, writers, metrics_json, log_dict>>
  /\ UNCHANGED <<step, n_eval_since_last_best, best_valid_acc, set_results, n_episodes_run>>
  /\ UNCHANGED <<lossvars, mainvars>>

Logging ==
  /\ pc = "logging"
  /\ IF LogDue(step, args.log_every)
       THEN /\ log_dict' = [log_dict EXCEPT !["train"] =
                 Append(@, Record(Mean(train_accuracies), Mean(train_losses), step))]
            /\ train_accuracies' = WindowAfterLog(train_accuracies)
            /\ train_losses' = WindowAfterLog(train_losses)
       ELSE UNCHANGED <<log_dict, train_accuracies, train_losses>>
  /\ pc' = "evaluate"
  /\ UNCHANGED <<args, error, exit, dirs, writers, metrics_json>>
  /\ UNCHANGED <<step, n_eval_since_last_best, best_valid_acc, set_results,
                 loss_dicts, n_episodes_run, net>>
  /\ UNCHANGED <<lossvars, mainvars>>

PcAfterValid_mut(es, n) == IF EarlyStopHit(es, n) THEN "early_stop" ELSE "eval_test"

\* the zip loop goes on to the test split whatever the counter is
PcAfterValid(es, n) == "eval_test"

Evaluate ==
  /\ pc = "evaluate"
  /\ IF PathGiven(args.valid_path) \/ PathGiven(args.test_path)
       THEN IF args.evaluate_every = 0
              THEN /\ Fail("ZeroDivisionError")
                   /\ UNCHANGED step
              ELSE IF EvalDue(step, args.evaluate_every)
                     THEN /\ pc' = "eval_valid"
                          /\ UNCHANGED <<step, error>>
                     ELSE /\ NextIteration
                          /\ UNCHANGED error
       ELSE /\ NextIteration
            /\ UNCHANGED error
  /\ UNCHANGED <<args, exit, dirs, writers, metrics_json, log_dict>>
  /\ UNCHANGED <<train_accuracies, train_losses, n_eval_since_last_best,
                 best_valid_acc, set_results, loss_dicts, n_episodes_run, net>>
  /\ UNCHANGED <<lossvars, mainvars>>

TracksBest_mut(set_type) == TRUE

\* if set_type == "valid"
TracksBest(set_type) == set_type = "valid"

\* One turn of the zip loop over (valid, test).
EvalSplit(path, set_type, nextpc) ==
  /\ IF PathGiven(path)
       THEN \E eps \in [1..args.n_test_episodes -> Outcomes] :
              LET r == test_step(net, eps) IN
              /\ net' = r.net
              /\ set_results' = r.results
              /\ n_episodes_run' = [n_episodes_run EXCEPT ![set_type] = @ + Len(eps)]
              /\ log_dict' = [log_dict EXCEPT ![set_type] =
                   Append(@, Record(r.results.acc, r.results.loss, step))]
              /\ IF TracksBest(set_type)
                   THEN IF Improved(r.results.acc, best_valid_acc)
                          THEN /\ best_valid_acc' = r.results.acc
                               /\ n_eval_since_last_best' = 0
                          ELSE /\ n_eval_since_last_best' = n_eval_since_last_best + 1
                               /\ UNCHANGED best_valid_acc
                   ELSE UNCHANGED <<best_valid_acc, n_eval_since_last_best>>
       ELSE UNCHANGED <<net, set_results, n_episodes_run, log_dict,
                        best_valid_acc, n_eval_since_last_best>>
  /\ pc' = nextpc
  /\ UNCHANGED <<args, error, exit, dirs, writers, metrics_json>>
  /\ UNCHANGED <<step, train_accuracies, train_losses, loss_dicts>>
  /\ UNCHANGED <<lossvars, mainvars>>

EvalValid ==
  /\ pc = "eval_valid"
  /\ EvalSplit(args.valid_path, "valid",
               PcAfterValid(args.early_stop, n_eval_since_last_best'))

EvalTest ==
  /\ pc = "eval_test"
  /\ EvalSplit(args.test_path, "test", "early_stop")

PcAfterBreak_mut == "done"

\* break leaves the for loop; the statement after the loop is the dump
PcAfterBreak == "write"

EarlyStopCheck ==
  /\ pc = "early_stop"
  /\ IF EarlyStopHit(args.early_stop, n_eval_since_last_best)
       THEN /\ pc' = PcAfterBreak
            /\ exit' = "break"
            /\ UNCHANGED step
       ELSE /\ NextIteration
            /\ UNCHANGED exit
  /\ UNCHANGED <<args, error, dirs, writers, metrics_json, log_dict>>
  /\ UNCHANGED <<train_accuracies, train_losses, n_eval_since_last_best,
                 best_valid_acc, set_results, loss_dicts, n_episodes_run, net>>
  /\ UNCHANGED <<lossvars, mainvars>>

LoopExhausted ==
  /\ pc = "loop"
  /\ ~(step < args.max_iter)
  /\ pc' = "write"
  /\ exit' = "exhausted"
  /\ UNCHANGED <<args, error, dirs, writers, metrics_json, log_dict>>
  /\ UNCHANGED <<loopvars, lossvars, mainvars>>

WriteMetrics ==
  /\ pc = "write"
  /\ metrics_json' = Append(metrics_json, log_dict)
  /\ pc' = "done"
  /\ UNCHANGED <<args, error, exit, dirs, writers, log_dict>>
  /\ UNCHANGED <<loopvars, lossvars, mainvars>>

(* ------------------------------------------------------ MatchingNet.loss *)
RECURSIVE Flatten(_)
Flatten(groups) == IF groups = <<>> THEN <<>>
                   ELSE Head(groups) \o Flatten(Tail(groups))

Group(kind, c, k) == [i \in 1..k |-> <<kind, c, i>>]

GroupSizes == UNION {[1..n -> 0..MaxShots] : n \in 0..MaxClasses}

Episodes ==
  { [ xs |-> [c \in 1..Len(ks) |-> Group("s", c, ks[c])],
      xq |-> [c \in 1..Len(qs) |-> Group("q", c, qs[c])] ] :
    ks \in GroupSizes, qs \in GroupSizes }

Raise(e) == /\ lpc' = "raised"
            /\ lerr' = e

\* n_class = len(xs); assert len(xq) == n_class
LossCount ==
  /\ lpc = "start"
  /\ IF Len(sample.xq) = Len(sample.xs)
       THEN /\ shape' = [shape EXCEPT !.n_class = Len(sample.xs)]
            /\ lpc' = "shape"
            /\ lerr' = lerr
       ELSE /\ Raise("AssertionError")
            /\ UNCHANGED shape
  /\ UNCHANGED <<sample, encoder_input, self, locals>>
  /\ UNCHANGED <<runvars, loopvars, mainvars>>

\* n_support = len(xs[0]); n_query = len(xq[0])
LossShape ==
  /\ lpc = "shape"
  /\ IF Len(sample.xs) = 0
       THEN /\ Raise("IndexError")
            /\ UNCHANGED shape
       ELSE /\ shape' = [shape EXCEPT !.n_support = Len(sample.xs[1]),
                                      !.n_query = Len(sample.xq[1])]
            /\ lpc' = "encode"
            /\ lerr' = lerr
  /\ UNCHANGED <<sample, encoder_input, self, locals>>
  /\ UNCHANGED <<runvars, loopvars, mainvars>>

\* x = support items then query items; z = self.encoder.forward(x)
LossEncode ==
  /\ lpc = "encode"
  /\ encoder_input' = Append(encoder_input, Flatten(sample.xs) \o Flatten(sample.xq))
  /\ lpc' = "encoded"
  /\ UNCHANGED <<sample, lerr, shape, self, locals>>
  /\ UNCHANGED <<runvars, loopvars, mainvars>>

Last_input == encoder_input[Len(encoder_input)]

\* Embedding vectors the encoder may return: their norms and their mutual
\* distances are whole numbers, and 5 * cosine is a whole number too.
Embeddings == << <<3, 0>>, <<0, 4>>, <<3, 4>> >>

EncoderNames == {"by_class", "by_index", "constant", "mixed"}

\* encoder.forward on one item <<kind, class, index>>, for four encoders
Embed(e, item) ==
  CASE e = "by_class" -> Embeddings[(item[2] % 3) + 1]
    [] e = "by_index" -> Embeddings[(item[3] % 3) + 1]
    [] e = "mixed"    -> Embeddings[((item[2] + item[3]) % 3) + 1]
    [] OTHER          -> Embeddings[1]

Forward(e, x) == [i \in 1..Len(x) |-> Embed(e, x[i])]

ISqrt(n) == CHOOSE r \in 0..n : r * r = n

Dot(a, b) == a[1] * b[1] + a[2] * b[2]

\* utils.math.euclidean_dist, for one pair of rows
euclidean_dist(a, b) == ISqrt(Dot(<<a[1] - b[1], a[2] - b[2]>>, <<a[1] - b[1], a[2] - b[2]>>))

\* utils.math.cosine_similarity, for one pair of rows, as a fraction
cosine_similarity(a, b) == [sum |-> Dot(a, b), n |-> ISqrt(Dot(a, a)) * ISqrt(Dot(b, b))]

\* -euclidean_dist(z_query, z_support) or cosine_similarity(...) * 5
Similarity(metric, q, s) ==
  IF metric = "euclidean"
    THEN 0 - euclidean_dist(q, s)
    ELSE (cosine_similarity(q, s).sum * 5) \div cosine_similarity(q, s).n

Min(a, b) == IF a < b THEN a ELSE b

\* seq[from:to] of Python, 0-based and clamped to the length
Slice(seq, from, to) == SubSeq(seq, Min(from, Len(seq)) + 1, Min(to, Len(seq)))

IsNaN(v) == v.n = 0

\* torch argmax of a row of fractions of one denominator, 0-based: the first
\* nan if there is one, else the first greatest value
ArgMax(row) ==
  IF \E c \in 1..Len(row) : IsNaN(row[c])
    THEN (CHOOSE c \in 1..Len(row) :
            IsNaN(row[c]) /\ \A d \in 1..(c - 1) : ~IsNaN(row[d])) - 1
    ELSE (CHOOSE c \in 1..Len(row) :
            /\ \A d \in 1..Len(row) : row[d].sum <= row[c].sum
            /\ \A d \in 1..(c - 1) : row[d].sum < row[c].sum) - 1

\* argmax of a row of true_labels (zeros and ones), 0-based
ArgMaxInt(row) ==
  (CHOOSE c \in 1..Len(row) :
     /\ \A d \in 1..Len(row) : row[d] <= row[c]
     /\ \A d \in 1..(c - 1) : row[d] < row[c]) - 1

NoLocals == [similarities |-> <<>>, distances_from_query_to_classes |-> <<>>,
             true_labels |-> <<>>, loss_val |-> <<>>, loss_dict |-> <<>>]

\* z_support = z[:n_class * n_support]; z_query = z[n_class * n_support:];
\* similarities between every query row and every support row
LossSimilarities ==
  /\ lpc = "encoded"
  /\ LET z == Forward(self.encoder, Last_input)
         z_support == Slice(z, 0, shape.n_class * shape.n_support)
         z_query == Slice(z, shape.n_class * shape.n_support, Len(z))
     IN locals' = [locals EXCEPT !.similarities =
          [i \in 1..Len(z_query) |->
             [j \in 1..Len(z_support) |-> Similarity(self.metric, z_query[i], z_support[j])]]]
  /\ lpc' = "aggregate"
  /\ UNCHANGED <<sample, lerr, shape, encoder_input, self>>
  /\ UNCHANGED <<runvars, loopvars, mainvars>>

RowOf_mut(ix_class, ix_sentence, n_support, n_query) == ix_class * n_support + ix_sentence

\* the row of true_labels of a query item: ix_class * n_query + ix_sentence
RowOf(ix_class, ix_sentence, n_support, n_query) == ix_class * n_query + ix_sentence

\* the (row, class) pairs set to 1 by the two enumerate loops, 0-based
LabelCells ==
  { <<RowOf(c - 1, i - 1, shape.n_support, shape.n_query), c - 1>> :
      <<c, i>> \in { ci \in (1..Len(sample.xq)) \X (1..MaxShots + 1) :
                       ci[2] <= Len(sample.xq[ci[1]]) } }

\* mean over the support columns of each class, then the one-hot targets
LossAggregate ==
  /\ lpc = "aggregate"
  /\ LET S == locals.similarities
         D == [i \in 1..Len(S) |->
                [c \in 1..shape.n_class |->
                   Mean(Slice(S[i], (c - 1) * shape.n_support, c * shape.n_support))]]
         T == [i \in 1..Len(S) |->
                [c \in 1..shape.n_class |->
                   IF <<i - 1, c - 1>> \in LabelCells THEN 1 ELSE 0]]
     IN IF \E cell \in LabelCells : cell[1] >= Len(S)
          THEN \* index out of the bounds of true_labels
               /\ Raise("IndexError")
               /\ locals' = [locals EXCEPT !.distances_from_query_to_classes = D]
          ELSE /\ locals' = [locals EXCEPT !.distances_from_query_to_classes = D,
                                           !.true_labels = T]
               /\ lpc' = "metrics"
               /\ lerr' = lerr
  /\ UNCHANGED <<sample, shape, encoder_input, self>>
  /\ UNCHANGED <<runvars, loopvars, mainvars>>

Correct_mut(target, prediction) == target # prediction

\* true_labels.argmax(1) == distances_from_query_to_classes.argmax(1)
Correct(target, prediction) == target = prediction

\* cross entropy (kept symbolic), accuracy and predictions
LossReturn ==
  /\ lpc = "metrics"
  /\ LET D == locals.distances_from_query_to_classes
         T == locals.true_labels
         y_hat == [i \in 1..Len(D) |-> ArgMax(D[i])]
         target == [i \in 1..Len(T) |-> ArgMaxInt(T[i])]
         hits == [i \in 1..Len(D) |-> IF Correct(target[i], y_hat[i]) THEN 1 ELSE 0]
         loss_val == [fn |-> "CrossEntropyLoss", input |-> D, target |-> target]
     IN locals' = [locals EXCEPT
          !.loss_val = loss_val,
          !.loss_dict = [loss |-> loss_val, acc |-> Mean(hits), y_hat |-> y_hat]]
  /\ lpc' = "returned"
  /\ UNCHANGED <<sample, lerr, shape, encoder_input, self>>
  /\ UNCHANGED <<runvars, loopvars, mainvars>>

(* ------------------------------------------------------------------ main *)
DefaultLogEvery == 10

NoCli == [entry |-> "run_matching"]

\* what parse_args can return: --metric is restricted by choices and
\* --early-stop is an int with default 0
CliArgs ==
  [ max_iter : 0..MaxIter,
    log_every : 1..MaxEvery,
    evaluate_every : 1..MaxEvery,
    early_stop : 0..MaxEarlyStop,
    n_test_episodes : 1..MaxEpisodes,
    train_path : {"ok", "missing"},
    valid_path : {"none", "ok", "missing"},
    test_path : {"none", "ok"},
    output_path : {"absent", "nonempty"},
    metric : {"cosine"} ]

\* the arguments main gives to run_matching; log_every is not among them, so
\* the default of the signature applies
ArgsFromMain(a) ==
  [ max_iter |-> a.max_iter,
    log_every |-> DefaultLogEvery,
    evaluate_every |-> a.evaluate_every,
    early_stop |-> Some(a.early_stop),
    n_test_episodes |-> a.n_test_episodes,
    train_path |-> a.train_path,
    valid_path |-> a.valid_path,
    test_path |-> a.test_path,
    output_path |-> a.output_path,
    metric |-> a.metric ]

\* for arg in [train_path, valid_path, test_path]: raise if it does not exist
MainCheckPaths ==
  /\ pc = "main"
  /\ IF \E p \in {cli.train_path, cli.valid_path, cli.test_path} : p = "missing"
       THEN Fail("FileNotFoundError")
       ELSE pc' = "main_run" /\ error' = error
  /\ UNCHANGED <<args, exit, dirs, writers, metrics_json, log_dict>>
  /\ UNCHANGED <<loopvars, lossvars, mainvars>>

MainRun ==
  /\ pc = "main_run"
  /\ args' = ArgsFromMain(cli)
  /\ pc' = "start"
  /\ UNCHANGED <<error, exit, dirs, writers, metrics_json, log_dict>>
  /\ UNCHANGED <<loopvars, lossvars, mainvars>>

\* json.dump(vars(args)) to config.json, once run_matching has returned
SaveConfig ==
  /\ pc = "done"
  /\ cli # NoCli
  /\ config_json' = Append(config_json, cli)
  /\ pc' = "main_done"
  /\ UNCHANGED cli
  /\ UNCHANGED <<args, error, exit, dirs, writers, metrics_json, log_dict>>
  /\ UNCHANGED <<loopvars, lossvars>>

(* -------------------------------------------------------- specification *)
RunIdleVars ==
  /\ pc = "idle"
  /\ error = "none"
  /\ exit = "running"
  /\ dirs = {}
  /\ writers = {}
  /\ metrics_json = <<>>
  /\ log_dict = NoLogs
  /\ net = NewNet
  /\ step = 0
  /\ train_accuracies = <<>>
  /\ train_losses = <<>>
  /\ n_eval_since_last_best = 0
  /\ best_valid_acc = InitialBest
  /\ set_results = NoResults
  /\ loss_dicts = <<>>
  /\ n_episodes_run = [s \in {"valid", "test"} |-> 0]

LossIdle ==
  /\ sample = [xs |-> <<>>, xq |-> <<>>]
  /\ lpc = "idle"
  /\ lerr = "none"
  /\ shape = NoShape
  /\ encoder_input = <<>>
  /\ self = [encoder |-> "constant", metric |-> "cosine"]
  /\ locals = NoLocals

MainIdle ==
  /\ cli = NoCli
  /\ config_json = <<>>

Init ==
  /\ args \in Args
  /\ pc = "start"
  /\ error = "none"
  /\ exit = "running"
  /\ dirs = {}
  /\ writers = {}
  /\ metrics_json = <<>>
  /\ log_dict = NoLogs
  /\ net = NewNet
  /\ step = 0
  /\ train_accuracies = <<>>
  /\ train_losses = <<>>
  /\ n_eval_since_last_best = 0
  /\ best_valid_acc = InitialBest
  /\ set_results = NoResults
  /\ loss_dicts = <<>>
  /\ n_episodes_run = [s \in {"valid", "test"} |-> 0]
  /\ LossIdle
  /\ MainIdle

Next ==
  \/ CheckOutputPath
  \/ CreateLogWriters
  \/ LoadModel
  \/ LoadData
  \/ TrainStep
  \/ Logging
  \/ Evaluate
  \/ EvalValid
  \/ EvalTest
  \/ EarlyStopCheck
  \/ LoopExhausted
  \/ WriteMetrics

Spec == Init /\ [][Next]_vars

\* run_matching is sequential code: whenever a statement can run, it runs.
FairSpec == Spec /\ WF_vars(Next)

\* A run started from the command line: main, run_matching, config.json.
InitMain ==
  /\ cli \in CliArgs
  /\ config_json = <<>>
  /\ args = ArgsFromMain(CHOOSE a \in CliArgs : TRUE)
  /\ pc = "main"
  /\ error = "none"
  /\ exit = "running"
  /\ dirs = {}
  /\ writers = {}
  /\ metrics_json = <<>>
  /\ log_dict = NoLogs
  /\ net = NewNet
  /\ step = 0
  /\ train_accuracies = <<>>
  /\ train_losses = <<>>
  /\ n_eval_since_last_best = 0
  /\ best_valid_acc = InitialBest
  /\ set_results = NoResults
  /\ loss_dicts = <<>>
  /\ n_episodes_run = [s \in {"valid", "test"} |-> 0]
  /\ LossIdle

NextMain ==
  \/ MainCheckPaths
  \/ MainRun
  \/ Next
  \/ SaveConfig

SpecMain == InitMain /\ [][NextMain]_vars

\* MatchingNet.loss on its own, over all small episodes, malformed ones included.
InitLoss ==
  /\ args = CHOOSE a \in Args : TRUE
  /\ RunIdleVars
  /\ sample \in Episodes
  /\ lpc = "start"
  /\ lerr = "none"
  /\ shape = NoShape
  /\ encoder_input = <<>>
  /\ self \in [encoder : EncoderNames, metric : {"cosine", "euclidean"}]
  /\ locals = NoLocals
  /\ MainIdle

NextLoss ==
  \/ LossCount
  \/ LossShape
  \/ LossEncode
  \/ LossSimilarities
  \/ LossAggregate
  \/ LossReturn

SpecLoss == InitLoss /\ [][NextLoss]_vars

(* ---------------------------------------------------------------- claims *)
NRec(ld, s) == IF s \in DOMAIN ld THEN Len(ld[s]) ELSE 0
Last(s) == s[Len(s)]
AccOf(rec) == rec.metrics[1].value
LossOf(rec) == rec.metrics[2].value
NTrain == Len(loss_dicts)
LoopOver == pc \in {"write", "done"}
HasValid == PathGiven(args.valid_path)
HasTest == PathGiven(args.test_path)
PositiveEarlyStop == args.early_stop # None /\ args.early_stop[1] > 0

\* C1: with early_stop > 0, once n_eval_since_last_best has reached early_stop
\* no train_step is executed any more: every step that runs train_step starts
\* with the counter strictly below early_stop.
C1_NoTrainStepAtThreshold ==
  [][ (PositiveEarlyStop /\ Len(loss_dicts') # Len(loss_dicts))
        => n_eval_since_last_best < args.early_stop[1] ]_vars

\* C1 witness: the counter reached early_stop and the loop was left by break
\* with iterations of range(max_iter) still to go.
C1_Witness ==
  /\ pc = "done" /\ exit = "break" /\ PositiveEarlyStop
  /\ n_eval_since_last_best >= args.early_stop[1]
  /\ NTrain < args.max_iter

\* C2: with early_stop 0 or None the loop never leaves by break, never runs
\* more than max_iter training steps, and has run exactly max_iter of them
\* when it is over.
C2_DisabledEarlyStop ==
  ~Truthy(args.early_stop) =>
     /\ exit # "break"
     /\ NTrain <= args.max_iter
     /\ (LoopOver => NTrain = args.max_iter /\ exit = "exhausted")

\* C2 witness: a finished run with early_stop = 0 and two consecutive
\* non-improving validation evaluations.
C2_Witness ==
  /\ pc = "done" /\ args.early_stop = Some(0)
  /\ n_eval_since_last_best >= 2 /\ NTrain = args.max_iter

\* C3: a validation evaluation with accuracy a sets (best, counter) to (a, 0)
\* when a > best and to (best, counter + 1) otherwise; a test evaluation
\* changes neither.
C3_BestAndCounter ==
  [][ /\ (NRec(log_dict', "valid") = NRec(log_dict, "valid") + 1) =>
           LET a == AccOf(Last(log_dict'["valid"])) IN
           IF Gt(a, best_valid_acc)
             THEN best_valid_acc' = a /\ n_eval_since_last_best' = 0
             ELSE /\ best_valid_acc' = best_valid_acc
                  /\ n_eval_since_last_best' = n_eval_since_last_best + 1
      /\ (NRec(log_dict', "test") = NRec(log_dict, "test") + 1) =>
           /\ best_valid_acc' = best_valid_acc
           /\ n_eval_since_last_best' = n_eval_since_last_best ]_vars

\* C3 witness: an improvement was followed by a non-improvement with an
\* accuracy equal to the best, and the test split was evaluated after it.
C3_Witness ==
  /\ HasValid /\ HasTest /\ pc = "early_stop"
  /\ Gt(best_valid_acc, Zero) /\ n_eval_since_last_best = 1
  /\ AccOf(Last(log_dict["valid"])) = best_valid_acc

\* C4: without a validation and a test split the run never evaluates and never
\* divides by evaluate_every; when the loop is over it was left by exhaustion
\* after exactly max_iter training steps and max_iter \div log_every train
\* records.
C4_NoHeldOutSplit ==
  (~HasValid /\ ~HasTest) =>
     /\ DOMAIN log_dict \subseteq {"train"}
     /\ \A s \in {"valid", "test"} : n_episodes_run[s] = 0
     /\ error # "ZeroDivisionError"
     /\ exit # "break"
     /\ NTrain <= args.max_iter
     /\ LoopOver =>
          /\ exit = "exhausted"
          /\ NTrain = args.max_iter
          /\ Len(log_dict["train"]) = args.max_iter \div args.log_every

\* C4 witness: a finished run without held-out split, evaluate_every = 0,
\* log_every = 2 and an odd max_iter.
C4_Witness ==
  /\ pc = "done" /\ ~HasValid /\ ~HasTest
  /\ args.evaluate_every = 0 /\ args.log_every = 2
  /\ args.max_iter % 2 = 1 /\ NTrain = args.max_iter

\* C5: between iterations and after the loop, each configured held-out split
\* has NTrain \div evaluate_every records, each made from n_test_episodes
\* episodes; the test split never has more records than the validation split
\* and is at most one behind; a split that is not configured has none.
C5_EvaluationCadence ==
  args.evaluate_every > 0 =>
     /\ \A s \in {"valid", "test"} :
          /\ n_episodes_run[s] = args.n_test_episodes * NRec(log_dict, s)
          /\ (pc \in {"early_stop", "loop", "write", "done"} /\ s \in DOMAIN log_dict)
               => Len(log_dict[s]) = NTrain \div args.evaluate_every
          /\ (pc \in {"logging", "evaluate", "eval_valid"} /\ s \in DOMAIN log_dict)
               => Len(log_dict[s]) = (NTrain - 1) \div args.evaluate_every
     /\ (HasValid /\ HasTest /\ pc # "start" /\ pc # "writers" /\ pc # "failed") =>
          /\ Len(log_dict["test"]) <= Len(log_dict["valid"])
          /\ Len(log_dict["valid"]) <= Len(log_dict["test"]) + 1
          /\ (Len(log_dict["valid"]) # Len(log_dict["test"])) => pc = "eval_test"

\* C5 witness: both splits configured, evaluate_every = 2, a finished run in
\* which one evaluation cycle happened after two training steps.
C5_Witness ==
  /\ pc = "done" /\ HasValid /\ HasTest /\ args.evaluate_every = 2
  /\ NTrain >= 2 /\ Len(log_dict["valid"]) = NTrain \div 2
  /\ Len(log_dict["test"]) >= 1

Window(from, to, f) == Field(SubSeq(loss_dicts, from, to), f)

\* C6: the i-th train record is emitted at step i * log_every - 1 and holds the
\* means of the loss and accuracy of the training steps (i-1) * log_every + 1
\* .. i * log_every; the rolling lists hold exactly the steps after the last
\* record.
C6_TrainWindow ==
  (pc \notin {"start", "writers", "failed"}) =>
     LET L == args.log_every
         recs == log_dict["train"]
         logged == IF pc = "logging" THEN (NTrain - 1) \div L ELSE NTrain \div L
     IN /\ Len(recs) = logged
        /\ \A i \in 1..Len(recs) :
             /\ recs[i].global_step = i * L - 1
             /\ AccOf(recs[i]) = Mean(Window((i - 1) * L + 1, i * L, "acc"))
             /\ LossOf(recs[i]) = Mean(Window((i - 1) * L + 1, i * L, "loss"))
        /\ train_accuracies = Window(Len(recs) * L + 1, NTrain, "acc")
        /\ train_losses = Window(Len(recs) * L + 1, NTrain, "loss")

\* C6 witness: two train records were emitted and their windows differ.
C6_Witness ==
  /\ pc = "done" /\ "train" \in DOMAIN log_dict
  /\ Len(log_dict["train"]) >= 2
  /\ AccOf(log_dict["train"][1]) # AccOf(log_dict["train"][2])

\* C7: when the loop is left by break, the cycle of that step is complete: each
\* configured split has a record of the step of the break; and whenever the
\* loop is over with both splits configured they have the same number of
\* records. The validation turn is always followed by the test turn.
C7_CycleFinishedBeforeStop ==
  /\ (exit = "break") =>
        \A s \in DOMAIN log_dict \ {"train"} :
            Len(log_dict[s]) > 0 /\ Last(log_dict[s]).global_step = step
  /\ (LoopOver /\ HasValid /\ HasTest) =>
        Len(log_dict["valid"]) = Len(log_dict["test"])
  /\ (pc = "early_stop" /\ HasTest) =>
        Len(log_dict["test"]) > 0 /\ Last(log_dict["test"]).global_step = step

\* C7 witness: the run stopped early with both splits configured, the counter
\* having reached the threshold in the validation turn of the last cycle.
C7_Witness ==
  /\ pc = "done" /\ exit = "break" /\ HasValid /\ HasTest
  /\ n_eval_since_last_best = args.early_stop[1]
  /\ NTrain < args.max_iter
  /\ Last(log_dict["test"]).global_step = Last(log_dict["valid"]).global_step

Malformed(ep) ==
  \/ Len(ep.xs) # Len(ep.xq)
  \/ \E c \in 1..Len(ep.xs) : Len(ep.xs[c]) = 0
  \/ \E c \in 1..Len(ep.xq) : Len(ep.xq[c]) = 0

\* C8: MatchingNet.loss never gives a malformed episode (class-group count
\* mismatch, an empty support group or an empty query group) to the encoder.
C8_MalformedNeverEncoded ==
  Malformed(sample) => (lpc # "encoded" /\ encoder_input = <<>>)

\* C9: the optimizer has updated the parameters exactly once per training step
\* executed, and only a step that runs train_step changes them.
C9_UpdatesOnlyInTrainStep ==
  /\ [](net.updates = NTrain)
  /\ [][ IF Len(loss_dicts') = Len(loss_dicts) + 1
           THEN net'.updates = net.updates + 1
           ELSE net'.updates = net.updates ]_vars

\* C9 witness: a finished run of two training steps in which both held-out
\* splits were evaluated.
C9_Witness ==
  /\ pc = "done" /\ NTrain >= 2 /\ net.updates = 2
  /\ n_episodes_run["valid"] > 0 /\ n_episodes_run["test"] > 0

ConfigErrors == {"FileExistsError", "AssertionError", "FileNotFoundError"}

\* C10: when run_matching fails on a configuration error (output location
\* exists, invalid metric, missing data path) nothing was created and no
\* training step ran.
C10_ConfigErrorNoSideEffects ==
  (pc = "failed" /\ error \in ConfigErrors) =>
     /\ dirs = {}
     /\ writers = {}
     /\ NTrain = 0

Terminal == pc \in {"done", "failed"}

\* C12: a run never makes more than max_iter training steps, never gets stuck
\* before it is over and eventually is over; a run that does not fail ends by
\* exhaustion or by break with the whole log_dict dumped to metrics.json, which
\* is written exactly once, at the very end: nothing is written before, and
\* from the moment the loop is left no training step or evaluation happens.
C12_TerminatesAndDumpsOnce ==
  /\ [](NTrain <= args.max_iter)
  /\ [](pc = "failed" => error # "none")
  /\ [](pc = "done" => /\ exit \in {"exhausted", "break"}
                       /\ metrics_json = <<log_dict>>)
  /\ [](pc # "done" => metrics_json = <<>>)
  /\ [][ LoopOver => /\ loss_dicts' = loss_dicts
                     /\ log_dict' = log_dict
                     /\ n_episodes_run' = n_episodes_run
                     /\ net' = net ]_vars
  /\ <>Terminal

\* C12 witness: both ways out of the loop end with the dump; here the break,
\* with training steps and evaluations in the dumped history.
C12_Witness ==
  /\ pc = "done" /\ exit = "break" /\ NTrain >= 1
  /\ metrics_json = <<log_dict>> /\ Len(log_dict["valid"]) >= 1

\* C16: every loss of train_step is computed in training mode on zeroed
\* gradients, and is followed by backward and one optimizer update; every loss
\* of test_step is computed in evaluation mode.
C16_LossModes ==
  LET c == net.last_loss IN
  /\ c.by = "train_step" => (c.training /\ c.grads = "zero")
  /\ c.by = "test_step" => ~c.training
  /\ pc = "logging" => /\ c.by = "train_step"
                       /\ net.training
                       /\ net.grads = "computed"
                       /\ net.updates = NTrain
  /\ pc = "early_stop" => (c.by = "test_step" /\ ~net.training)

\* C16 witness: a training step has just run after an evaluation of both
\* splits, which had left the model in evaluation mode.
C16_Witness ==
  /\ pc = "logging" /\ NTrain = 2
  /\ n_episodes_run["valid"] > 0 /\ n_episodes_run["test"] > 0
  /\ net.last_loss.by = "train_step" /\ net.last_loss.training

\* C17: with a test split and no validation split the counter stays 0 and the
\* best accuracy stays 0.0, the loop is never left by break, and it is over
\* after exactly max_iter training steps, whatever early_stop is.
C17_TestOnlyNeverStops ==
  (~HasValid /\ HasTest) =>
     /\ n_eval_since_last_best = 0
     /\ best_valid_acc = Zero
     /\ exit # "break"
     /\ NTrain <= args.max_iter
     /\ LoopOver => (NTrain = args.max_iter /\ exit = "exhausted")

\* C17 witness: a finished test-only run with early_stop = 1 in which the test
\* accuracy was 0 at every evaluation.
C17_Witness ==
  /\ pc = "done" /\ ~HasValid /\ HasTest /\ args.early_stop = Some(1)
  /\ NTrain = args.max_iter /\ Len(log_dict["test"]) >= 2
  /\ \A i \in 1..Len(log_dict["test"]) : AccOf(log_dict["test"][i]).sum = 0

NValid == Len(log_dict["valid"])
ValidAcc(i) == AccOf(log_dict["valid"][i])

\* the validation evaluations that beat 0.0 and every earlier one
Improvements ==
  {i \in 1..NValid :
     /\ Gt(ValidAcc(i), Zero)
     /\ \A j \in 1..(i - 1) : Gt(ValidAcc(i), ValidAcc(j))}

LastImprovement ==
  LET imp == Improvements IN
  IF imp = {} THEN 0 ELSE CHOOSE i \in imp : \A j \in imp : j <= i

\* C18: best_valid_acc is the greatest of 0.0 and the validation accuracies so
\* far, and the counter is the number of validation evaluations since the last
\* strict improvement; so a first validation accuracy of 0 is no improvement,
\* and with early_stop = 1 the run stops at that first evaluation.
C18_BestIsMaximum ==
  (HasValid /\ pc \notin {"start", "writers", "failed"}) =>
     LET last == LastImprovement IN
     /\ best_valid_acc = (IF last = 0 THEN Zero ELSE ValidAcc(last))
     /\ \A i \in 1..NValid : ~Gt(ValidAcc(i), best_valid_acc)
     /\ ~Gt(Zero, best_valid_acc)
     /\ n_eval_since_last_best = NValid - last
     /\ (NValid >= 1 /\ args.early_stop = Some(1) /\ ValidAcc(1).sum = 0) =>
          /\ NValid = 1
          /\ n_eval_since_last_best = 1
          /\ NTrain = args.evaluate_every
          /\ LoopOver => exit = "break"

\* C18 witness: early_stop = 1, the first validation accuracy was 0 and the run
\* stopped there with iterations left.
C18_Witness ==
  /\ pc = "done" /\ HasValid /\ args.early_stop = Some(1)
  /\ Len(log_dict["valid"]) = 1 /\ AccOf(log_dict["valid"][1]).sum = 0
  /\ exit = "break" /\ NTrain < args.max_iter

\* C19: a record appended after the k-th training step has global_step k - 1;
\* so the i-th train record has global_step i * log_every - 1 and the i-th
\* record of a held-out split i * evaluate_every - 1, strictly increasing
\* within a split and equal for the valid and test record of one cycle.
C19_GlobalStep ==
  /\ [](\A s \in DOMAIN log_dict : \A i \in 1..Len(log_dict[s]) :
          /\ log_dict[s][i].global_step =
               i * (IF s = "train" THEN args.log_every ELSE args.evaluate_every) - 1
          /\ log_dict[s][i].global_step < NTrain
          /\ \A j \in 1..(i - 1) :
               log_dict[s][j].global_step < log_dict[s][i].global_step)
  /\ []((HasValid /\ HasTest) =>
          \A i \in 1..NRec(log_dict, "test") :
             log_dict["test"][i].global_step = log_dict["valid"][i].global_step)
  /\ [][ \A s \in DOMAIN log_dict :
           (NRec(log_dict', s) = NRec(log_dict, s) + 1) =>
              Last(log_dict'[s]).global_step = NTrain - 1 ]_vars

\* C19 witness: two evaluation cycles of both splits and two train records.
C19_Witness ==
  /\ pc = "done" /\ HasValid /\ HasTest
  /\ Len(log_dict["valid"]) = 2 /\ Len(log_dict["test"]) = 2
  /\ Len(log_dict["train"]) = 2
  /\ log_dict["test"][2].global_step = 1

\* a valid episode: N >= 1 classes, K >= 1 support and Q >= 1 query items each
WellFormed(ep) ==
  /\ Len(ep.xs) >= 1 /\ Len(ep.xq) = Len(ep.xs)
  /\ Len(ep.xs[1]) >= 1 /\ Len(ep.xq[1]) >= 1
  /\ \A c \in 1..Len(ep.xs) : /\ Len(ep.xs[c]) = Len(ep.xs[1])
                              /\ Len(ep.xq[c]) = Len(ep.xq[1])

NClasses == Len(sample.xs)
KSupport == Len(sample.xs[1])
QQuery == Len(sample.xq[1])

\* C14: for a valid episode of N classes, K support and Q query items the
\* aggregated similarity matrix has N*Q rows of N columns, column c being the
\* mean of the similarity columns c*K .. (c+1)*K - 1, and true_labels has the
\* same shape with, in row i, a single 1, in column i // Q.
C14_ShapesAndOneHot ==
  (WellFormed(sample) /\ lpc \in {"metrics", "returned"}) =>
     LET S == locals.similarities
         D == locals.distances_from_query_to_classes
         T == locals.true_labels
     IN /\ lerr = "none"
        /\ Len(S) = NClasses * QQuery /\ Len(D) = Len(S) /\ Len(T) = Len(S)
        /\ \A i \in 1..Len(S) :
             /\ Len(S[i]) = NClasses * KSupport
             /\ Len(D[i]) = NClasses /\ Len(T[i]) = NClasses
             /\ \A c \in 1..NClasses :
                  /\ D[i][c].n = KSupport
                  /\ D[i][c].sum =
                       SumSeq(SubSeq(S[i], (c - 1) * KSupport + 1, c * KSupport))
                  /\ T[i][c] = (IF c - 1 = (i - 1) \div QQuery THEN 1 ELSE 0)
             /\ Cardinality({c \in 1..NClasses : T[i][c] = 1}) = 1

\* C14 witness: a valid episode with N = 2, K = 1, Q = 2 went through loss.
C14_Witness ==
  /\ lpc = "returned" /\ WellFormed(sample)
  /\ NClasses = 2 /\ KSupport = 1 /\ QQuery = 2
  /\ Len(locals.true_labels) = 4

\* the column of the first greatest value of a row of D, 0-based
Predicted(row) ==
  CHOOSE p \in 0..(Len(row) - 1) :
     /\ \A d \in 1..Len(row) : ~Gt(row[d], row[p + 1])
     /\ \A d \in 1..p : Gt(row[p + 1], row[d])

\* C15: for a valid episode the accuracy is the number of query rows whose
\* argmax over the aggregated similarity is the row's class i // Q, divided by
\* the number of query rows, hence between 0 and 1; with one class it is 1.
C15_Accuracy ==
  (WellFormed(sample) /\ lpc = "returned") =>
     LET D == locals.distances_from_query_to_classes
         acc == locals.loss_dict.acc
         right == {i \in 1..Len(D) : Predicted(D[i]) = (i - 1) \div QQuery}
     IN /\ acc.n = NClasses * QQuery
        /\ acc.sum = Cardinality(right)
        /\ 0 <= acc.sum /\ acc.sum <= acc.n
        /\ \A i \in 1..Len(D) : locals.loss_dict.y_hat[i] = Predicted(D[i])
        /\ NClasses = 1 => acc.sum = acc.n

\* C15 witness: a single-class episode with K = 2 and Q = 2 returned accuracy 1.
C15_Witness ==
  /\ lpc = "returned" /\ WellFormed(sample)
  /\ NClasses = 1 /\ KSupport = 2 /\ QQuery = 2
  /\ locals.loss_dict.acc = [sum |-> 2, n |-> 2]

\* C11: in a run started through main with --log-every L, one train record is
\* emitted every L training steps.
C11_LogEveryConsumed ==
  (pc = "main_done") =>
     Len(log_dict["train"]) = NTrain \div cli.log_every

SplitNames == {"train", "valid", "test"}
CliKeys == DOMAIN ArgsFromMain(CHOOSE a \in CliArgs : TRUE)

\* C13: what is persisted at the end of a run (metrics.json, config.json) holds
\* an entry, besides the split logs and the command-line arguments, that tells
\* whether the run ended by early stop or by reaching max_iter.
C13_ReasonCodeRecorded ==
  (pc = "main_done") =>
     \/ \E k \in DOMAIN metrics_json[1] : k \notin SplitNames
     \/ \E k \in DOMAIN config_json[1] : k \notin CliKeys

====
